---- MODULE Spec2Model ----
(***************************************************************************)
(* Model of src/woocommerce_api.py: WooCommerceManager, its paginated      *)
(* order download (get_orders), the two boundary computations on top of    *)
(* it (fetch_orders_since, fetch_last_day_orders) and the polling thread   *)
(* (start_sync, stop_sync, _polling_loop).                                 *)
(*                                                                         *)
(* Time is counted in minutes.  A caller is either a polling thread        *)
(* (1..MaxTasks) or the host process calling the manager directly          *)
(* (Manual).  Every caller owns one activation of get_orders: its locals   *)
(* page, all_orders, paginate_all and params, and the requests it has      *)
(* passed to self.api.get.                                                 *)
(***************************************************************************)
EXTENDS Integers, Sequences, FiniteSets, TLC

\* ---------------------------------------------------------------- bounds
MaxTasks == 2        \* polling threads start_sync may spawn in one run
MaxTime == 2         \* clock ticks in one run
MaxOrders == 2       \* orders created on the server while the loop runs
MaxTotal == 5        \* orders held by the server of the pager runs
MaxPerPage == 2      \* largest configured page size of the loop runs
MaxPageSize == 3     \* largest configured page size of the pager runs

\* ------------------------------------------------------ program constants
DayMinutes == 1440   \* timedelta(days=1)
OverlapMinutes == 5  \* timedelta(minutes=5)
TickMinutes == OverlapMinutes + 1  \* one clock tick, longer than the overlap

Manual == 0
Tasks == 1..MaxTasks
Callers == {Manual} \cup Tasks

VARIABLES
    api,            \* self.api is set (TRUE) or None (FALSE)
    init_result,    \* what the last initialize returned: "never", "true", "false"
    sync_running,   \* self.sync_running
    last_sync,      \* self.last_sync
    now,            \* datetime.now(timezone.utc)
    per_page,       \* config.get('app', 'per_page', 100)
    server,         \* the remote order collection, newest first
    pc,             \* where each caller is: a thread is "unborn", at the
                    \* loop's test ("loop"), waiting for the answer to a
                    \* request ("inflight"), inside on_order_update
                    \* ("callback"), in one of the two sleeps ("sleep",
                    \* "backoff") or ended ("done"); the host process is
                    \* "idle", "inflight" or holds a "returned" value
    params,         \* get_orders' params argument: [kind, bound]
    paginate_all,   \* get_orders' paginate_all argument
    page,           \* get_orders' local page
    all_orders,     \* get_orders' local all_orders (order ids)
    result,         \* what the caller's fetch returned (a thread's
                    \* updated_orders), while the caller holds it
    requests,       \* page indices passed to self.api.get('orders') by the call
    responses,      \* the outcome of each of those requests
    cycle_start,    \* the time at which a thread's current polling cycle began
    missed,         \* the batch and the lower bound of the thread's previous
                    \* cycle, when that cycle ended with the callback raising
    call            \* the method the host process has called, "none" when idle

vars == <<api, init_result, sync_running, last_sync, now, per_page, server, pc,
          params, paginate_all, page, all_orders, result, requests, responses,
          cycle_start, missed, call>>

frame == <<params, paginate_all, page, all_orders, result, requests, responses>>

\* ------------------------------------------------------------ Optional[List]
None == [isNone |-> TRUE, orders |-> <<>>]
Some(l) == [isNone |-> FALSE, orders |-> l]
\* Python truth of an Optional[List]: None and [] are both false.
Truthy(r) == ~r.isNone /\ r.orders # <<>>

NoParams == [kind |-> "none", bound |-> 0]

\* ------------------------------------------------------------- the server
Matches(o, p) ==
    CASE p.kind = "modified_after" -> o.modified > p.bound
      [] p.kind = "after" -> o.created > p.bound
      [] OTHER -> TRUE

Filtered(p) == SelectSeq(server, LAMBDA o : Matches(o, p))

Min(a, b) == IF a < b THEN a ELSE b

\* 'per_page': per_page, 'page': k of the matching orders, 'orderby': 'date',
\* 'order': 'desc'; a page past the end is the empty list.
PageOf(s, k) == SubSeq(s, (k - 1) * per_page + 1, Min(k * per_page, Len(s)))

Ids(s) == [i \in 1..Len(s) |-> s[i].id]

\* ------------------------------------------------------------- get_orders
Outcomes == {"ok", "malformed", "status", "exc"}

NoMiss == [set |-> FALSE, batch |-> <<>>, bound |-> 0]

\* The locals and the request record of caller c.
SetFrame(c, p, pa, k, acc, reqs, resps, r) ==
    /\ params' = [params EXCEPT ![c] = p]
    /\ paginate_all' = [paginate_all EXCEPT ![c] = pa]
    /\ page' = [page EXCEPT ![c] = k]
    /\ all_orders' = [all_orders EXCEPT ![c] = acc]
    /\ requests' = [requests EXCEPT ![c] = reqs]
    /\ responses' = [responses EXCEPT ![c] = resps]
    /\ result' = [result EXCEPT ![c] = r]

\* The activation is over and its values are dropped.
DropFrame(c) == SetFrame(c, NoParams, FALSE, 1, <<>>, <<>>, <<>>, None)

\* The test as "is not None": an empty list enters the callback as well.
EntersCallback_NotNone(r) == ~r.isNone

\* Line 44: the truth test a thread makes on updated_orders.
EntersCallback(r) == Truthy(r)

\* The fetch of caller c returns r.  The host process holds the value.  A
\* thread tests it (line 44) and enters the callback with it (line 45), or
\* goes to sleep (line 47) with nothing left to hold.
ReturnTo(c, p, pa, k, acc, reqs, resps, r) ==
    IF c = Manual
    THEN /\ pc' = [pc EXCEPT ![c] = "returned"]
         /\ SetFrame(c, p, pa, k, acc, reqs, resps, r)
    ELSE IF EntersCallback(r)
    THEN /\ pc' = [pc EXCEPT ![c] = "callback"]
         /\ SetFrame(c, p, pa, k, acc, reqs, resps, r)
    ELSE /\ pc' = [pc EXCEPT ![c] = "sleep"]
         /\ DropFrame(c)

\* get_orders without the guard of lines 70-71.
EnterGetOrders_NoGuard(c, p, pa) ==
    /\ pc' = [pc EXCEPT ![c] = "inflight"]
    /\ SetFrame(c, p, pa, 1, <<>>, <<1>>, <<>>, None)

\* Lines 69-90: the guard on self.api, the locals' initial values, and the
\* request for page 1 handed to the API client.
EnterGetOrders(c, p, pa) ==
    IF api
    THEN /\ pc' = [pc EXCEPT ![c] = "inflight"]
         /\ SetFrame(c, p, pa, 1, <<>>, <<1>>, <<>>, None)
    ELSE ReturnTo(c, p, pa, 1, <<>>, <<>>, <<>>, None)

\* What an iteration of the while loop leaves: the accumulated orders, the
\* page index, and ret: "continue" (next iteration), "list" (break, return
\* all_orders) or "none" (return None).
Leaves(acc, k, ret) == [all_orders |-> acc, page |-> k, ret |-> ret]

\* The loop with a full page taken for the last one ("<=" for "<" in line 107).
HandleResponse_StopsOnFullPage(acc, k, pa, outcome, orders_page) ==
    IF outcome = "exc" THEN Leaves(acc, k, "none")
    ELSE IF outcome = "status" THEN Leaves(acc, k, "list")
    ELSE IF outcome = "malformed" \/ orders_page = <<>> THEN Leaves(acc, k, "list")
    ELSE IF ~pa THEN Leaves(acc \o orders_page, k, "list")
    ELSE IF Len(orders_page) <= per_page THEN Leaves(acc \o orders_page, k, "list")
    ELSE Leaves(acc \o orders_page, k + 1, "continue")

\* The loop without the test of lines 107-108: only an empty page ends it.
HandleResponse_NoShortPageStop(acc, k, pa, outcome, orders_page) ==
    IF outcome = "exc" THEN Leaves(acc, k, "none")
    ELSE IF outcome = "status" THEN Leaves(acc, k, "list")
    ELSE IF outcome = "malformed" \/ orders_page = <<>> THEN Leaves(acc, k, "list")
    ELSE IF ~pa THEN Leaves(acc \o orders_page, k, "list")
    ELSE Leaves(acc \o orders_page, k + 1, "continue")

\* The loop with a non-success status handled like an exception.
HandleResponse_StatusReturnsNone(acc, k, pa, outcome, orders_page) ==
    IF outcome = "exc" THEN Leaves(acc, k, "none")
    ELSE IF outcome = "status" THEN Leaves(acc, k, "none")
    ELSE IF outcome = "malformed" \/ orders_page = <<>> THEN Leaves(acc, k, "list")
    ELSE IF ~pa THEN Leaves(acc \o orders_page, k, "list")
    ELSE IF Len(orders_page) < per_page THEN Leaves(acc \o orders_page, k, "list")
    ELSE Leaves(acc \o orders_page, k + 1, "continue")

\* The loop with an exception handled like a non-success status ("break" for
\* "return None" in line 117).
HandleResponse_ExceptionBreaks(acc, k, pa, outcome, orders_page) ==
    IF outcome = "exc" THEN Leaves(acc, k, "list")
    ELSE IF outcome = "status" THEN Leaves(acc, k, "list")
    ELSE IF outcome = "malformed" \/ orders_page = <<>> THEN Leaves(acc, k, "list")
    ELSE IF ~pa THEN Leaves(acc \o orders_page, k, "list")
    ELSE IF Len(orders_page) < per_page THEN Leaves(acc \o orders_page, k, "list")
    ELSE Leaves(acc \o orders_page, k + 1, "continue")

\* The loop without the test of lines 102-103: every call pages to the end.
HandleResponse_IgnoresMode(acc, k, pa, outcome, orders_page) ==
    IF outcome = "exc" THEN Leaves(acc, k, "none")
    ELSE IF outcome = "status" THEN Leaves(acc, k, "list")
    ELSE IF outcome = "malformed" \/ orders_page = <<>> THEN Leaves(acc, k, "list")
    ELSE IF Len(orders_page) < per_page THEN Leaves(acc \o orders_page, k, "list")
    ELSE Leaves(acc \o orders_page, k + 1, "continue")

\* The loop asking for the same page again after a non-success status.
HandleResponse_RetriesOnStatus(acc, k, pa, outcome, orders_page) ==
    IF outcome = "exc" THEN Leaves(acc, k, "none")
    ELSE IF outcome = "status" THEN Leaves(acc, k, "continue")
    ELSE IF outcome = "malformed" \/ orders_page = <<>> THEN Leaves(acc, k, "list")
    ELSE IF ~pa THEN Leaves(acc \o orders_page, k, "list")
    ELSE IF Len(orders_page) < per_page THEN Leaves(acc \o orders_page, k, "list")
    ELSE Leaves(acc \o orders_page, k + 1, "continue")

\* Lines 92-117: what one iteration of the while loop does with the answer:
\* an exception (lines 115-117), a non-success status (lines 111-113), an
\* empty or malformed body (lines 95-97), the first page when only it is
\* wanted (lines 102-103), a short page (lines 107-108), a full page (line 110).
HandleResponse(acc, k, pa, outcome, orders_page) ==
    IF outcome = "exc" THEN Leaves(acc, k, "none")
    ELSE IF outcome = "status" THEN Leaves(acc, k, "list")
    ELSE IF outcome = "malformed" \/ orders_page = <<>> THEN Leaves(acc, k, "list")
    ELSE IF ~pa THEN Leaves(acc \o orders_page, k, "list")
    ELSE IF Len(orders_page) < per_page THEN Leaves(acc \o orders_page, k, "list")
    ELSE Leaves(acc \o orders_page, k + 1, "continue")

\* Lines 76-122: the answer to the request in flight arrives; the loop either
\* sends the request for the next page or the call returns.  A thread's fetch
\* that was answered takes the place of the one whose batch was missed.
Respond(c, outcome) ==
    /\ pc[c] = "inflight"
    /\ LET orders_page == Ids(PageOf(Filtered(params[c]), page[c]))
           h == HandleResponse(all_orders[c], page[c], paginate_all[c],
                               outcome, orders_page)
           resps == Append(responses[c], outcome)
           r == IF h.ret = "list" THEN Some(h.all_orders) ELSE None
       IN  IF h.ret = "continue"
           THEN /\ SetFrame(c, params[c], paginate_all[c], h.page, h.all_orders,
                            Append(requests[c], h.page), resps, result[c])
                /\ UNCHANGED pc
           ELSE ReturnTo(c, params[c], paginate_all[c], h.page, h.all_orders,
                         requests[c], resps, r)
    /\ missed' = [t \in Tasks |-> IF t = c THEN NoMiss ELSE missed[t]]
    /\ UNCHANGED <<api, init_result, sync_running, last_sync, now, per_page,
                   server, cycle_start, call>>

\* ------------------------------------------------------------- initialize
\* initialize keeping the handle only when the probe answered 200.
Initialize_KeepsHandleOnSuccess(probe) ==
    /\ api' = IF probe = "200" THEN TRUE ELSE api
    /\ init_result' = IF probe = "200" THEN "true" ELSE "false"
    /\ UNCHANGED <<sync_running, last_sync, now, per_page, server, pc, frame,
                   cycle_start, missed, call>>

\* Lines 19-27.  self.api is assigned before the probe is sent, so it is set
\* whatever the probe answers.
Initialize(probe) ==
    /\ api' = TRUE
    /\ init_result' = IF probe = "200" THEN "true" ELSE "false"
    /\ UNCHANGED <<sync_running, last_sync, now, per_page, server, pc, frame,
                   cycle_start, missed, call>>

\* --------------------------------------------------- start_sync, stop_sync
Alive(t) == pc[t] \notin {"unborn", "done"}

\* Lines 29-34.  The new thread is the lowest unused one.
StartSync ==
    IF sync_running
    THEN UNCHANGED vars
    ELSE \E t \in Tasks :
           /\ pc[t] = "unborn"
           /\ \A u \in Tasks : u < t => pc[u] # "unborn"
           /\ sync_running' = TRUE
           /\ pc' = [pc EXCEPT ![t] = "loop"]
           /\ UNCHANGED <<api, init_result, last_sync, now, per_page, server,
                          frame, cycle_start, missed, call>>

\* Lines 36-38.
StopSync ==
    /\ sync_running' = FALSE
    /\ UNCHANGED <<api, init_result, last_sync, now, per_page, server, pc,
                   frame, cycle_start, missed, call>>

\* ----------------------------------------------------------- _polling_loop
\* The lower bound without the five minutes of overlap.
SinceParams_NoOverlap(since_timestamp) ==
    [kind |-> "modified_after", bound |-> since_timestamp]

\* Line 54: the lower bound fetch_orders_since asks for.
SinceParams(since_timestamp) ==
    [kind |-> "modified_after", bound |-> since_timestamp - OverlapMinutes]

\* The loop as "while True".
KeepsPolling_Always == TRUE

\* Line 41: the loop's test.
KeepsPolling == sync_running

\* Line 41, and lines 43 and 52-55 when the flag is set: at the start or when
\* a sleep is over, the thread leaves the loop, or begins a cycle by calling
\* fetch_orders_since(self.last_sync).
LoopCheck(t) ==
    /\ pc[t] \in {"loop", "sleep", "backoff"}
    /\ IF KeepsPolling
       THEN /\ cycle_start' = [cycle_start EXCEPT ![t] = now]
            /\ EnterGetOrders(t, SinceParams(last_sync), FALSE)
            /\ UNCHANGED missed
       ELSE /\ pc' = [pc EXCEPT ![t] = "done"]
            /\ cycle_start' = [cycle_start EXCEPT ![t] = 0]
            /\ missed' = [missed EXCEPT ![t] = NoMiss]
            /\ UNCHANGED frame
    /\ UNCHANGED <<api, init_result, sync_running, last_sync, now, per_page,
                   server, call>>

\* The watermark set to the clock as read before the fetch.
NewWatermark_CycleStart(t) == cycle_start[t]

\* Line 46: the value the watermark gets once the callback is back.
NewWatermark(t) == now

\* Lines 45-47: on_order_update returned; the watermark is set, the thread
\* sleeps for the configured interval.
CallbackReturn(t) ==
    /\ pc[t] = "callback"
    /\ last_sync' = NewWatermark(t)
    /\ pc' = [pc EXCEPT ![t] = "sleep"]
    /\ DropFrame(t)
    /\ UNCHANGED <<api, init_result, sync_running, now, per_page, server,
                   cycle_start, missed, call>>

\* The loop without its try: the exception ends the thread.
AfterRaise_EndsThread == "done"

\* Line 48: where the handler of the loop's try takes the thread.
AfterRaise == "backoff"

\* The callback raising after the watermark was set (line 46 before line 45).
CallbackRaise_AdvancesWatermark(t) ==
    /\ pc[t] = "callback"
    /\ pc' = [pc EXCEPT ![t] = "backoff"]
    /\ last_sync' = now
    /\ missed' = [missed EXCEPT ![t] =
                    [set |-> TRUE, batch |-> result[t].orders,
                     bound |-> params[t].bound]]
    /\ DropFrame(t)
    /\ UNCHANGED <<api, init_result, sync_running, now, per_page, server,
                   cycle_start, call>>

\* Lines 45 and 48-50: on_order_update raised; the handler logs and backs off.
CallbackRaise(t) ==
    /\ pc[t] = "callback"
    /\ pc' = [pc EXCEPT ![t] = AfterRaise]
    /\ missed' = [missed EXCEPT ![t] =
                    [set |-> TRUE, batch |-> result[t].orders,
                     bound |-> params[t].bound]]
    /\ DropFrame(t)
    /\ UNCHANGED <<api, init_result, sync_running, last_sync, now, per_page,
                   server, cycle_start, call>>

TaskStep(t) ==
    \/ LoopCheck(t)
    \/ \E outcome \in Outcomes : Respond(t, outcome)
    \/ CallbackReturn(t)
    \/ CallbackRaise(t)

\* ------------------------------------------------------- the host process
\* A direct call of get_orders without params (line 69).
CallGetOrders(pa) ==
    /\ pc[Manual] = "idle"
    /\ EnterGetOrders(Manual, NoParams, pa)
    /\ call' = "get_orders"
    /\ UNCHANGED <<api, init_result, sync_running, last_sync, now, per_page,
                   server, cycle_start, missed>>

\* A direct call of fetch_orders_since (lines 52-58).
CallFetchOrdersSince(since_timestamp) ==
    /\ pc[Manual] = "idle"
    /\ EnterGetOrders(Manual, SinceParams(since_timestamp), FALSE)
    /\ call' = "fetch_orders_since"
    /\ UNCHANGED <<api, init_result, sync_running, last_sync, now, per_page,
                   server, cycle_start, missed>>

\* The day counted back from the watermark instead of the clock.
LastDayParams_FromWatermark == [kind |-> "after", bound |-> last_sync - DayMinutes]

\* Lines 62-63: the lower bound fetch_last_day_orders asks for.
LastDayParams == [kind |-> "after", bound |-> now - DayMinutes]

\* fetch_last_day_orders taking its call for a synchronization.
CallFetchLastDayOrders_SetsWatermark ==
    /\ pc[Manual] = "idle"
    /\ EnterGetOrders(Manual, LastDayParams, TRUE)
    /\ call' = "fetch_last_day_orders"
    /\ last_sync' = now
    /\ UNCHANGED <<api, init_result, sync_running, now, per_page, server,
                   cycle_start, missed>>

\* A call of fetch_last_day_orders (lines 60-67).
CallFetchLastDayOrders ==
    /\ pc[Manual] = "idle"
    /\ EnterGetOrders(Manual, LastDayParams, TRUE)
    /\ call' = "fetch_last_day_orders"
    /\ UNCHANGED <<api, init_result, sync_running, last_sync, now, per_page,
                   server, cycle_start, missed>>

\* The host process has taken the returned value.
TakeResult ==
    /\ pc[Manual] = "returned"
    /\ pc' = [pc EXCEPT ![Manual] = "idle"]
    /\ DropFrame(Manual)
    /\ call' = "none"
    /\ UNCHANGED <<api, init_result, sync_running, last_sync, now, per_page,
                   server, cycle_start, missed>>

ManualStep ==
    \/ \E pa \in BOOLEAN : CallGetOrders(pa)
    \/ \E ts \in {last_sync, now} : CallFetchOrdersSince(ts)
    \/ CallFetchLastDayOrders
    \/ \E outcome \in Outcomes : Respond(Manual, outcome)
    \/ TakeResult

\* ------------------------------------------------ the remote shop, the clock
\* A new order is the newest: it goes in front ('orderby': 'date', 'desc').
CreateOrder ==
    /\ Len(server) < MaxOrders
    /\ server' = <<[id |-> Len(server) + 1, created |-> now, modified |-> now]>>
                   \o server
    /\ UNCHANGED <<api, init_result, sync_running, last_sync, now, per_page,
                   pc, frame, cycle_start, missed, call>>

\* An existing order changes (a status change): its creation date, and so its
\* place in the listing, stays.
ModifyOrder(i) ==
    /\ i \in 1..Len(server)
    /\ server[i].modified < now
    /\ server' = [server EXCEPT ![i].modified = now]
    /\ UNCHANGED <<api, init_result, sync_running, last_sync, now, per_page,
                   pc, frame, cycle_start, missed, call>>

Tick ==
    /\ now < MaxTime * TickMinutes
    /\ now' = now + TickMinutes
    /\ UNCHANGED <<api, init_result, sync_running, last_sync, per_page, server,
                   pc, frame, cycle_start, missed, call>>

\* ------------------------------------------------------- specifications
\* Lines 13-17: the manager as constructed.
InitManager ==
    /\ sync_running = FALSE
    /\ now = 0
    /\ last_sync = now - DayMinutes
    /\ pc = [c \in Callers |-> IF c = Manual THEN "idle" ELSE "unborn"]
    /\ params = [c \in Callers |-> NoParams]
    /\ paginate_all = [c \in Callers |-> FALSE]
    /\ page = [c \in Callers |-> 1]
    /\ all_orders = [c \in Callers |-> <<>>]
    /\ result = [c \in Callers |-> None]
    /\ requests = [c \in Callers |-> <<>>]
    /\ responses = [c \in Callers |-> <<>>]
    /\ cycle_start = [t \in Tasks |-> 0]
    /\ missed = [t \in Tasks |-> NoMiss]
    /\ call = "none"

\* The shop of the runs in which it holds still: total orders, ten hours
\* apart, newest first.
StaticServer(total) ==
    [i \in 1..total |-> [id |-> total - i + 1,
                         created |-> 0 - (i - 1) * 600,
                         modified |-> 0 - (i - 1) * 600]]

\* The manager as constructed, or after an initialize that returned true.
InitApi ==
    /\ api \in BOOLEAN
    /\ init_result = IF api THEN "true" ELSE "never"

\* The shop is empty or holds MaxOrders orders.
Init ==
    /\ InitManager
    /\ InitApi
    /\ per_page \in 1..MaxPerPage
    /\ \E total \in {0, MaxOrders} : server = StaticServer(total)

\* The polling loop, started and stopped at will, while time passes.
Next ==
    \/ StartSync
    \/ StopSync
    \/ \E t \in Tasks : TaskStep(t)
    \/ Tick

Spec == Init /\ [][Next]_vars

InitShop ==
    /\ InitManager
    /\ InitApi
    /\ per_page \in 1..MaxPerPage
    /\ server = <<>>

\* The polling loop, started and left running, against a shop whose orders
\* come and change while time passes.
NextShop ==
    \/ StartSync
    \/ \E t \in Tasks : TaskStep(t)
    \/ CreateOrder
    \/ \E i \in 1..MaxOrders : ModifyOrder(i)
    \/ Tick

ShopSpec == InitShop /\ [][NextShop]_vars

\* The polling loop, started and stopped at will, with the clock held.
NextLoop ==
    \/ StartSync
    \/ StopSync
    \/ \E t \in Tasks : TaskStep(t)

\* Threads are scheduled, requests are answered within the client's timeout,
\* sleeps end, and the callback comes back (by returning or by raising).
FairSpec == Init /\ [][NextLoop]_vars /\ \A t \in Tasks : WF_vars(TaskStep(t))

InitPager ==
    /\ InitManager
    /\ api = FALSE
    /\ init_result = "never"
    /\ per_page \in 1..MaxPageSize
    /\ \E total \in 0..MaxTotal : server = StaticServer(total)

\* The host process paging through a shop that holds still.
NextPager ==
    \/ \E probe \in {"200", "other", "raises"} : Initialize(probe)
    \/ ManualStep

PagerSpec == InitPager /\ [][NextPager]_vars

\* The host process calling the fetch methods while the polling loop is
\* started and stopped and time passes; this host starts the loop again only
\* when the thread it stopped has ended.
NextHost ==
    \/ StartSync /\ \A t \in Tasks : ~Alive(t)
    \/ StopSync
    \/ \E t \in Tasks : TaskStep(t)
    \/ ManualStep
    \/ Tick

HostSpec == Init /\ [][NextHost]_vars

\* Every request of the host process is answered: by a response or, after the
\* client's timeout (line 9), by an exception.
FairPagerSpec ==
    /\ InitPager
    /\ [][NextPager]_vars
    /\ WF_vars(\E outcome \in Outcomes : Respond(Manual, outcome))

\* The loop on an initialized manager, started and left running, with every
\* request answered successfully and every callback returning, against a
\* shop whose orders come and change while time passes.
InitSteady ==
    /\ InitManager
    /\ api = TRUE
    /\ init_result = "true"
    /\ per_page \in 1..MaxPerPage
    /\ server = <<>>

NextSteady ==
    \/ StartSync
    \/ \E t \in Tasks : LoopCheck(t)
    \/ \E t \in Tasks : Respond(t, "ok")
    \/ \E t \in Tasks : CallbackReturn(t)
    \/ CreateOrder
    \/ \E i \in 1..MaxOrders : ModifyOrder(i)
    \/ Tick

SteadySpec == InitSteady /\ [][NextSteady]_vars

\* ================================================================ claims
InitialWatermark == 0 - DayMinutes

\* C1: the watermark changes only in the step in which the callback of a
\* thread returns normally on a non-empty batch.  No other step of a polling
\* cycle writes it: not the return of a fetch with None or an empty list, not
\* the callback raising.  (Spec)
C1_WatermarkChangesOnlyOnSuccess ==
    [][last_sync' # last_sync =>
         \E t \in Tasks : /\ pc[t] = "callback"
                          /\ pc'[t] = "sleep"
                          /\ ~result[t].isNone
                          /\ result[t].orders # <<>>]_vars

\* A callback has raised and the watermark is still the constructor's.
C1_Witness ==
    \E t \in Tasks : pc[t] = "backoff" /\ missed[t].set /\ last_sync = InitialWatermark

\* C2 as stated: when the callback returns, the watermark becomes the time at
\* which the cycle began.  (Spec)
C2_WatermarkIsCycleStart ==
    [][\A t \in Tasks : (pc[t] = "callback" /\ pc'[t] = "sleep")
                           => last_sync' = cycle_start[t]]_vars

\* C2 as amended: when the callback returns, the watermark becomes the time
\* of that return, which is the cycle's start time or later.  (Spec)
C2_WatermarkIsReturnTime ==
    [][\A t \in Tasks : (pc[t] = "callback" /\ pc'[t] = "sleep")
                           => last_sync' = now /\ last_sync' >= cycle_start[t]]_vars

\* A callback has returned, and the watermark it set is later than the time
\* at which its cycle began.
C2_Witness ==
    \E t \in Tasks : pc[t] = "sleep" /\ last_sync = now /\ last_sync > cycle_start[t]

\* C3: at most one thread executing _polling_loop is alive.  (Spec)
C3_AtMostOneLoopTask == Cardinality({t \in Tasks : Alive(t)}) <= 1

\* C4: stop_sync while a thread's request is in flight interrupts nothing (the
\* thread and its request stand as they were); as long as the flag stays false
\* no thread sends a first request of a new cycle; and unless start_sync sets
\* the flag again, the thread whose request was in flight ends.  (FairSpec)
C4_StopIsCooperative ==
    /\ [][(sync_running /\ ~sync_running') =>
             (pc' = pc /\ requests' = requests /\ params' = params)]_vars
    /\ [][\A t \in Tasks : ~sync_running =>
             ~(pc[t] # "inflight" /\ pc'[t] = "inflight")]_vars
    /\ \A t \in Tasks :
         (pc[t] = "inflight" /\ ~sync_running) ~> (pc[t] = "done" \/ sync_running)

\* stop_sync has run while a thread's request is in flight.
C4_Witness ==
    \E t \in Tasks : pc[t] = "inflight" /\ requests[t] = <<1>> /\ ~sync_running

\* C5: a thread ends only at the loop's test and only when the flag is false;
\* a fetch or a callback that is over leaves the thread in the callback or in
\* one of the two sleeps; and a sleeping thread sends the request of another
\* cycle unless the flag has become false.  (Without an API handle a cycle
\* begins and ends in one step, and no request shows it.)  (FairSpec)
C5_LoopSurvivesFailures ==
    /\ [][\A t \in Tasks : (pc[t] # "done" /\ pc'[t] = "done") =>
             (~sync_running /\ pc[t] \in {"loop", "sleep", "backoff"})]_vars
    /\ [][\A t \in Tasks : (pc[t] \in {"inflight", "callback"} /\ pc'[t] # pc[t]) =>
             pc'[t] \in {"callback", "sleep", "backoff"}]_vars
    /\ \A t \in Tasks :
         (pc[t] \in {"sleep", "backoff"}) ~>
             (pc[t] = "inflight" \/ ~sync_running \/ ~api)

\* A callback has raised; its thread is alive, backing off, and the flag is set.
C5_Witness ==
    \E t \in Tasks : pc[t] = "backoff" /\ missed[t].set /\ sync_running

\* The order with this id is on the server and passes the filter p.
StillMatches(id, p) ==
    \E i \in 1..Len(server) : server[i].id = id /\ Matches(server[i], p)

InSeq(x, q) == \E i \in 1..Len(q) : q[i] = x

\* C6: after a cycle whose callback raised on batch B, the next cycle asks
\* with the same lower bound, and when its fetch hands a batch to the callback
\* that batch holds every record of B that still passes the filter.  (ShopSpec)
C6_MissedBatchRedelivered ==
    [][\A t \in Tasks :
         (missed[t].set /\ pc[t] = "inflight" /\ pc'[t] = "callback") =>
            /\ params[t].bound = missed[t].bound
            /\ \A i \in 1..Len(missed[t].batch) :
                 StillMatches(missed[t].batch[i], params[t])
                   => InSeq(missed[t].batch[i], result'[t].orders)]_vars

\* ------------------------------------------------------- claims on the pager
Held == Ids(Filtered(params[Manual]))
Total == Len(Held)

Returned == pc[Manual] = "returned"

\* The responses of the call were k - 1 times "ok" and then last.
EndsWith(k, last) ==
    /\ Len(responses[Manual]) = k
    /\ responses[Manual][k] = last
    /\ \A i \in 1..(k - 1) : responses[Manual][i] = "ok"

AllOk ==
    /\ responses[Manual] # <<>>
    /\ \A i \in 1..Len(responses[Manual]) : responses[Manual][i] = "ok"

UpTo(n) == [i \in 1..n |-> i]

Ceil(a, b) == (a + b - 1) \div b

\* C7: a fetch of all pages whose responses were all successful returns the
\* orders the server holds for the filter, each once, in the server's order.
\* (PagerSpec)
C7_AllPagesConcatenated ==
    (Returned /\ paginate_all[Manual] /\ AllOk) =>
        (~result[Manual].isNone /\ result[Manual].orders = Held)

\* Page size 2, five orders: three requests, five records.
C7_Witness ==
    /\ Returned /\ paginate_all[Manual] /\ AllOk
    /\ per_page = 2 /\ Total = 5
    /\ Len(result[Manual].orders) = 5

\* C8 as stated: such a fetch asks for pages 1..ceil(total / per_page); stated
\* here for a shop that holds at least one order.  (PagerSpec)
C8_CeilRequests ==
    (Returned /\ paginate_all[Manual] /\ AllOk /\ Total >= 1) =>
        requests[Manual] = UpTo(Ceil(Total, per_page))

\* C8 as amended: such a fetch asks for pages 1..floor(total / per_page) + 1,
\* in this order and each once; that is ceil(total / per_page) requests when
\* total is no multiple of per_page, and one more (answered by the empty page)
\* when it is.  (PagerSpec)
C8_FloorPlusOneRequests ==
    (Returned /\ paginate_all[Manual] /\ AllOk) =>
        /\ requests[Manual] = UpTo((Total \div per_page) + 1)
        /\ (Total % per_page # 0 =>
              Len(requests[Manual]) = Ceil(Total, per_page))
        /\ (Total % per_page = 0 =>
              Len(requests[Manual]) = Ceil(Total, per_page) + 1)

\* Page size 2, five orders: requests for pages 1, 2, 3.  Page size 2, four
\* orders: requests for pages 1, 2, 3 as well.
C8_Witness ==
    /\ Returned /\ paginate_all[Manual] /\ AllOk
    /\ per_page = 2 /\ Total \in {4, 5}
    /\ requests[Manual] = <<1, 2, 3>>

\* C9: when page k of a fetch of all pages is answered with a non-success
\* status, the call returns the orders of pages 1..k-1 (a list, not None) and
\* has asked for pages 1..k, each once.  (PagerSpec)
C9_StatusErrorReturnsEarlierPages ==
    \A k \in 1..(MaxTotal + 1) :
        (Returned /\ paginate_all[Manual] /\ EndsWith(k, "status")) =>
            /\ ~result[Manual].isNone
            /\ result[Manual].orders = SubSeq(Held, 1, (k - 1) * per_page)
            /\ requests[Manual] = UpTo(k)

\* Page 3 was answered with a non-success status; two pages are returned.
C9_Witness ==
    /\ Returned /\ paginate_all[Manual] /\ EndsWith(3, "status")
    /\ Len(result[Manual].orders) = 2 * per_page

\* C10: when the request for page k raises, in either mode, the call returns
\* None: no list, whatever was accumulated.  (PagerSpec)
C10_TransportErrorReturnsNone ==
    \A k \in 1..(MaxTotal + 1) :
        (Returned /\ EndsWith(k, "exc")) => result[Manual] = None

\* The request for page 2 raised after page 1 had been accumulated.
C10_Witness ==
    /\ Returned /\ EndsWith(2, "exc")
    /\ all_orders[Manual] # <<>>
    /\ result[Manual].isNone

\* The host process begins a call.
Calls == pc[Manual] = "idle" /\ pc'[Manual] # "idle"

FirstPage == SubSeq(Held, 1, Min(per_page, Total))

\* C11: a first-page-only call on a manager whose API handle is set sends one
\* request, for page 1; while the call is in flight and when it has returned
\* that is the only request it has made, whatever the server holds and
\* whatever the answer was; and it returns None, the empty list or the orders
\* of page 1.  (PagerSpec)
C11_FirstPageOnlyOneRequest ==
    /\ [][(Calls /\ api /\ ~paginate_all'[Manual]) =>
            (pc'[Manual] = "inflight" /\ requests'[Manual] = <<1>>)]_vars
    /\ []((pc[Manual] = "inflight" /\ ~paginate_all[Manual]) =>
            (requests[Manual] = <<1>> /\ responses[Manual] = <<>>))
    /\ []((Returned /\ ~paginate_all[Manual] /\ responses[Manual] # <<>>) =>
            /\ requests[Manual] = <<1>>
            /\ Len(responses[Manual]) = 1
            /\ result[Manual] \in {None, Some(<<>>), Some(FirstPage)})

\* Five orders, page size 2: one request, answered, and two orders returned.
C11_Witness ==
    /\ Returned /\ ~paginate_all[Manual]
    /\ Total = 5 /\ per_page = 2
    /\ requests[Manual] = <<1>> /\ responses[Manual] = <<"ok">>
    /\ Len(result[Manual].orders) = 2

C13_CallbackOnlyOnNonEmptyBatch ==
    /\ [](\A t \in Tasks : pc[t] = "callback" =>
             (~result[t].isNone /\ Len(result[t].orders) >= 1))
    /\ [][\A t \in Tasks :
            /\ (pc'[t] = "callback" /\ pc[t] # "callback") =>
                   (pc[t] = "inflight" /\ result'[t].orders = all_orders'[t])
            /\ (pc[t] = "callback" /\ pc'[t] # "callback") =>
                   pc'[t] \in {"sleep", "backoff"}]_vars

\* A thread is inside the callback with a batch; another thread's fetch
\* returned nothing and it sleeps.
C13_Witness ==
    \E t, u \in Tasks :
        /\ pc[t] = "callback" /\ Len(result[t].orders) >= 1
        /\ pc[u] = "sleep" /\ result[u] = None

\* C14: while self.api has never been set, a call of get_orders,
\* fetch_orders_since or fetch_last_day_orders returns None in the step in
\* which it is made, and no request is ever in flight or on record.
\* (PagerSpec)
C14_NoHandleNoRequest ==
    /\ [][(Calls /\ ~api) =>
            /\ pc'[Manual] = "returned"
            /\ result'[Manual] = None
            /\ requests'[Manual] = <<>>]_vars
    /\ [](~api => /\ init_result = "never"
                  /\ pc[Manual] # "inflight"
                  /\ requests[Manual] = <<>>
                  /\ responses[Manual] = <<>>
                  /\ result[Manual] = None)

\* fetch_last_day_orders has returned on a manager never initialized, with
\* five orders on the server.
C14_Witness ==
    /\ ~api /\ Returned /\ call = "fetch_last_day_orders"
    /\ Len(server) = 5
    /\ result[Manual] = None /\ requests[Manual] = <<>>

\* Thread t begins a polling cycle: it has found the flag set and calls
\* fetch_orders_since(self.last_sync).
BeginsCycle(t) ==
    /\ pc[t] \in {"loop", "sleep", "backoff"}
    /\ sync_running
    /\ (pc'[t] # pc[t] \/ cycle_start'[t] # cycle_start[t])

\* The request fetch_orders_since(last_sync) makes: page 1 only, orders
\* modified after last_sync - 5 minutes.
SendsSinceRequest(t) ==
    /\ pc'[t] = "inflight"
    /\ requests'[t] = <<1>>
    /\ ~paginate_all'[t]
    /\ params'[t] = [kind |-> "modified_after",
                     bound |-> last_sync - OverlapMinutes]

\* C15 as stated: every polling cycle issues exactly one request, whose lower
\* bound is last_sync - 5 minutes.  (Spec)
C15_EveryCycleOneRequest ==
    [][\A t \in Tasks : BeginsCycle(t) => SendsSinceRequest(t)]_vars

\* C15 as amended: a cycle that begins while self.api is set sends one request,
\* for page 1, with paginate_all false and the lower bound last_sync - 5
\* minutes, and sends no other before the cycle is over; a cycle that begins
\* while self.api is None sends no request.  (Spec)
C15_CycleWithHandleOneRequest ==
    /\ [][\A t \in Tasks :
            BeginsCycle(t) =>
                IF api THEN SendsSinceRequest(t)
                ELSE pc'[t] = "sleep" /\ requests'[t] = <<>>]_vars
    /\ [](\A t \in Tasks :
            pc[t] \in {"inflight", "callback"} =>
                /\ requests[t] = <<1>>
                /\ ~paginate_all[t]
                /\ params[t].kind = "modified_after"
                /\ \E ts \in {InitialWatermark} \cup 0..now :
                      /\ ts <= last_sync
                      /\ params[t].bound = ts - OverlapMinutes)

\* The watermark was set one tick after construction and the next cycle's
\* request asks for the orders modified after that time less five minutes.
C15_Witness ==
    \E t \in Tasks :
        /\ pc[t] = "inflight" /\ requests[t] = <<1>>
        /\ last_sync = TickMinutes
        /\ params[t].bound = TickMinutes - OverlapMinutes

\* C16: a call of fetch_last_day_orders asks for the orders created after the
\* clock's reading at the call less 24 hours, in fetch-all-pages mode, and
\* keeps both for every request of the call, whatever the watermark is and
\* whether the loop is running or not.  (HostSpec)
C16_LastDayFromClockAllPages ==
    /\ [][(Calls /\ call' = "fetch_last_day_orders") =>
            /\ params'[Manual] = [kind |-> "after", bound |-> now - DayMinutes]
            /\ paginate_all'[Manual]]_vars
    /\ [][(call = "fetch_last_day_orders" /\ call' = call) =>
            /\ params'[Manual] = params[Manual]
            /\ paginate_all'[Manual] = paginate_all[Manual]]_vars
    /\ [](call = "fetch_last_day_orders" =>
            /\ params[Manual].kind = "after"
            /\ paginate_all[Manual]
            /\ \E ts \in 0..now : params[Manual].bound = ts - DayMinutes)

\* The loop runs, the watermark was set one tick ago, and the call made now
\* has asked for its second page with the bound now less one day.
C16_Witness ==
    /\ call = "fetch_last_day_orders" /\ pc[Manual] = "inflight"
    /\ sync_running /\ \E t \in Tasks : Alive(t)
    /\ now = 2 * TickMinutes /\ last_sync = TickMinutes
    /\ params[Manual].bound = now - DayMinutes
    /\ requests[Manual] = <<1, 2>>

\* A step of a fetch the host process has called: the call, an answer to one
\* of its requests, its return, the returned value taken.
HostFetchStep ==
    \/ pc'[Manual] # pc[Manual]
    \/ call' # call
    \/ requests'[Manual] # requests[Manual]
    \/ responses'[Manual] # responses[Manual]
    \/ result'[Manual] # result[Manual]

\* C17: no step of get_orders, fetch_orders_since or fetch_last_day_orders
\* called by the host process changes last_sync or sync_running, whatever
\* the answers are; last_sync changes only when a thread's callback returns,
\* and sync_running only in a step that is start_sync (one thread is born)
\* or stop_sync (every caller stays where it is).  (HostSpec)
C17_HostFetchesLeaveLoopState ==
    /\ [][HostFetchStep =>
            (last_sync' = last_sync /\ sync_running' = sync_running)]_vars
    /\ [][last_sync' # last_sync =>
            \E t \in Tasks : pc[t] = "callback" /\ pc'[t] = "sleep"]_vars
    /\ [][sync_running' # sync_running =>
            /\ frame' = frame /\ call' = call /\ last_sync' = last_sync
            /\ IF sync_running'
               THEN \E t \in Tasks :
                      /\ pc[t] = "unborn"
                      /\ pc' = [pc EXCEPT ![t] = "loop"]
               ELSE pc' = pc]_vars

\* While the loop runs and after the watermark has advanced, a call of the
\* host process has returned None: its second request raised.
C17_Witness ==
    /\ Returned /\ responses[Manual] = <<"ok", "exc">>
    /\ result[Manual] = None
    /\ sync_running /\ last_sync = TickMinutes

\* C18: a call of get_orders (direct, or through fetch_orders_since or
\* fetch_last_day_orders) that is in flight returns, with a list or with None,
\* and by then it has sent at most floor(total / per_page) + 1 requests, total
\* being the number of orders the server holds for the filter; this for every
\* page size and every sequence of answers.  (FairPagerSpec)
C18_GetOrdersTerminates ==
    /\ (pc[Manual] = "inflight") ~> Returned
    /\ [](Len(requests[Manual]) <= (Total \div per_page) + 1)
    /\ [](Returned => Len(responses[Manual]) = Len(requests[Manual]))

\* A fetch of all pages, page size 1, of a shop with MaxTotal orders has
\* returned after MaxTotal + 1 requests, all answered successfully.
C18_Witness ==
    /\ Returned /\ paginate_all[Manual] /\ AllOk
    /\ per_page = 1 /\ Total = MaxTotal
    /\ Len(requests[Manual]) = MaxTotal + 1

\* C19: no modified order is skipped.  When a thread's callback returns and
\* the watermark is set, every order that was modified later than the
\* watermark the cycle began with, and before the cycle began, is in the batch
\* the callback got or is still within reach of the next cycle's request
\* (modified after the new watermark less five minutes).  An order for which
\* this fails was passed to no callback since its modification (the earlier
\* fetches were made before it), and no later cycle asks for it (the bounds of
\* later requests are no earlier).  (SteadySpec)
C19_NoModifiedOrderSkipped ==
    [][\A t \in Tasks :
         (pc[t] = "callback" /\ pc'[t] = "sleep") =>
            \A i \in 1..Len(server) :
               (/\ server[i].modified > params[t].bound + OverlapMinutes
                /\ server[i].modified < cycle_start[t]
                /\ ~InSeq(server[i].id, result[t].orders))
               => server[i].modified > last_sync' - OverlapMinutes]_vars

\* C20 as stated: while the last initialize returned false, a call of
\* get_orders returns None and issues no request.  (PagerSpec)
C20_FailedInitializeNoRequest ==
    [][(Calls /\ init_result = "false") =>
         /\ pc'[Manual] = "returned"
         /\ result'[Manual] = None
         /\ requests'[Manual] = <<>>]_vars

\* C20 as amended: once initialize has been called, self.api is set, whatever
\* the probe answered and whatever initialize returned; a call of get_orders
\* made after initialize returned false sends the request for page 1, as it
\* does after initialize returned true.  Only before the first initialize
\* does the manager answer None without a request.  (PagerSpec)
C20_FailedInitializeKeepsHandle ==
    /\ [](init_result # "never" <=> api)
    /\ [][(Calls /\ init_result # "never") =>
            /\ pc'[Manual] = "inflight"
            /\ requests'[Manual] = <<1>>]_vars
    /\ [][(Calls /\ init_result = "never") =>
            /\ pc'[Manual] = "returned"
            /\ result'[Manual] = None
            /\ requests'[Manual] = <<>>]_vars

\* After an initialize that returned false, a get_orders for all pages has
\* returned the five orders of the shop.
C20_Witness ==
    /\ init_result = "false"
    /\ Returned /\ call = "get_orders" /\ paginate_all[Manual]
    /\ Total = 5 /\ result[Manual] = Some(Held)

====
